---- MODULE Spec2Model ----
(***************************************************************************)
(* Model of the Vikunja Flow Launcher plugin (src/main.py).                *)
(*                                                                         *)
(* Conventions for Python values:                                          *)
(*   - a str that the code inspects character by character (the query, a   *)
(*     task title) is a sequence of one-character strings;                 *)
(*   - any other str is a TLA+ string;                                     *)
(*   - None (JSON null) in an integer slot is the definition None;         *)
(*   - f-strings are records [fmt, args] (Str / F below);                  *)
(*   - a file is a JSON document [kind, raw, pairs, elems]; json.dump and  *)
(*     json.load convert between documents and values;                     *)
(*   - titles are written without the emoji prefix of the source.          *)
(***************************************************************************)
EXTENDS Integers, Sequences, FiniteSets, TLC

VARIABLES
    configFile,   \* content of CONFIG_FILE (config.json)
    cacheFile,    \* content of LISTS_CACHE_FILE (vikunja_lists.json)
    lastOp,       \* last entry-point invocation: arguments, outcome, effects
    lastSet,      \* history: config saved by the last successful set_default_list
    parseIn,      \* input of parse_task_query (query, now)
    parseOut,     \* its result
    storeOut,     \* result of the last load_config call of the store spec
    lastSaved     \* history: record given to the last save_config call

vars == <<configFile, cacheFile, lastOp, lastSet, parseIn, parseOut, storeOut, lastSaved>>

-----------------------------------------------------------------------------
(* Bounds *)

MaxListId == 2   \* list ids are 1..MaxListId
MaxParts  == 2   \* a parser query is the concatenation of at most MaxParts pieces
MaxDay    == 1   \* datetime.now() is day 0..MaxDay

None == -1       \* Python None / JSON null where the slot otherwise holds an integer

HTTP_OK      == 200
HTTP_CREATED == 201

-----------------------------------------------------------------------------
(* str operations on character sequences *)

UpperChars == <<"A","B","C","D","E","F","G","H","I","J","K","L","M",
                "N","O","P","Q","R","S","T","U","V","W","X","Y","Z">>
LowerChars == <<"a","b","c","d","e","f","g","h","i","j","k","l","m",
                "n","o","p","q","r","s","t","u","v","w","x","y","z">>

LowerChar(c) ==
    IF \E i \in DOMAIN UpperChars : UpperChars[i] = c
    THEN LowerChars[CHOOSE i \in DOMAIN UpperChars : UpperChars[i] = c]
    ELSE c

lower(s) == [i \in DOMAIN s |-> LowerChar(s[i])]      \* str.lower()

StartsWith(s, key) == Len(key) <= Len(s) /\ SubSeq(s, 1, Len(key)) = key

\* `key in s`
Contains(s, key) == \E i \in 0..(Len(s) - Len(key)) : SubSeq(s, i + 1, i + Len(key)) = key

RECURSIVE replace(_, _)
\* s.replace(key, ""): every non-overlapping occurrence, left to right, exact case
replace(s, key) ==
    IF Len(s) < Len(key) \/ key = <<>> THEN s
    ELSE IF StartsWith(s, key) THEN replace(SubSeq(s, Len(key) + 1, Len(s)), key)
    ELSE <<Head(s)>> \o replace(Tail(s), key)

RECURSIVE lstrip(_)
lstrip(s) == IF s # <<>> /\ Head(s) = " " THEN lstrip(Tail(s)) ELSE s

RECURSIVE rstrip(_)
rstrip(s) == IF s # <<>> /\ s[Len(s)] = " " THEN rstrip(SubSeq(s, 1, Len(s) - 1)) ELSE s

strip(s) == rstrip(lstrip(s))                         \* str.strip()

-----------------------------------------------------------------------------
(* parse_task_query *)

KwTomorrow == <<"t","o","m","o","r","r","o","w">>
KwNextWeek == <<"n","e","x","t"," ","w","e","e","k">>

\* date_keywords, in insertion order
date_keywords == << [key |-> KwTomorrow, days |-> 1], [key |-> KwNextWeek, days |-> 7] >>

\* (now + timedelta(days)).strftime("%Y-%m-%d"): the calendar day, as a day number
due_date_of(now, days) == now + days

RECURSIVE parse_loop(_, _, _)
parse_loop(query, now, i) ==
    IF i > Len(date_keywords) THEN [task_title |-> query, due_date |-> None]
    ELSE IF Contains(lower(query), date_keywords[i].key)
         THEN [task_title |-> strip(replace(query, date_keywords[i].key)),
               due_date   |-> due_date_of(now, date_keywords[i].days)]
         ELSE parse_loop(query, now, i + 1)

parse_task_query(query, now) == parse_loop(query, now, 1)

\* Inputs of the parser specification
Pieces == { KwTomorrow,
            <<"T","o","m","o","r","r","o","w">>,
            <<"T","O","M","O","R","R","O","W">>,
            KwNextWeek,
            <<"N","e","x","t"," ","W","e","e","k">>,
            <<"B","u","y"," ","m","i","l","k">>,
            <<" ">>,
            <<"t","o","m","o">> }

RECURSIVE Concats(_)
Concats(n) == IF n = 0 THEN { <<>> }
              ELSE Concats(n - 1) \cup { a \o p : a \in Concats(n - 1), p \in Pieces }

ParseQueries == Concats(MaxParts)
Days == 0..MaxDay

ParsePending == [done |-> FALSE, task_title |-> <<>>, due_date |-> None]

ParseStep ==
    /\ ~parseOut.done
    /\ parseOut' = LET parsed == parse_task_query(parseIn.query, parseIn.now) IN
                   [done |-> TRUE, task_title |-> parsed.task_title,
                    due_date |-> parsed.due_date]
    /\ UNCHANGED <<configFile, cacheFile, lastOp, lastSet, parseIn, storeOut, lastSaved>>

-----------------------------------------------------------------------------
(* JSON documents and Python values *)

AbsentFile      == [kind |-> "absent",    raw |-> "",  pairs |-> <<>>, elems |-> <<>>]
MalformedDoc(r) == [kind |-> "malformed", raw |-> r,   pairs |-> <<>>, elems |-> <<>>]
NullDoc         == [kind |-> "null",      raw |-> "",  pairs |-> <<>>, elems |-> <<>>]
ObjectDoc(ps)   == [kind |-> "object",    raw |-> "",  pairs |-> ps,   elems |-> <<>>]
ArrayDoc(es)    == [kind |-> "array",     raw |-> "",  pairs |-> <<>>, elems |-> es]

PyNone    == [kind |-> "none", d |-> <<>>, l |-> <<>>]
PyDict(d) == [kind |-> "dict", d |-> d,    l |-> <<>>]
PyList(l) == [kind |-> "list", d |-> <<>>, l |-> l]

\* Keys in the order the documents of this model list them
KeyOrder == <<"vikunja_url", "api_token", "default_list_id", "id", "title", "message">>

RECURSIVE PairsFrom(_, _)
PairsFrom(d, ks) ==
    IF ks = <<>> THEN <<>>
    ELSE (IF Head(ks) \in DOMAIN d THEN << <<Head(ks), d[Head(ks)]>> >> ELSE <<>>)
         \o PairsFrom(d, Tail(ks))

DictPairs(d) == PairsFrom(d, KeyOrder)

\* a JSON object's members as a dict: the last member of a name wins
PairsToDict(ps) ==
    [k \in {ps[i][1] : i \in DOMAIN ps} |->
        ps[CHOOSE i \in DOMAIN ps :
              ps[i][1] = k /\ \A j \in DOMAIN ps : ps[j][1] = k => j <= i][2]]

\* json.dump(value, f)
json_dump(v) ==
    CASE v.kind = "dict" -> ObjectDoc(DictPairs(v.d))
      [] v.kind = "list" -> ArrayDoc([i \in DOMAIN v.l |-> DictPairs(v.l[i])])
      [] OTHER           -> NullDoc

\* json.loads of a document that exists
json_loads(doc) ==
    CASE doc.kind = "object" -> [raised |-> "", val |-> PyDict(PairsToDict(doc.pairs))]
      [] doc.kind = "array"  ->
            [raised |-> "", val |-> PyList([i \in DOMAIN doc.elems |-> PairsToDict(doc.elems[i])])]
      [] doc.kind = "null"   -> [raised |-> "", val |-> PyNone]
      [] OTHER               -> [raised |-> "JSONDecodeError", val |-> PyNone]

\* with open(path, "r") as f: json.load(f)
read_json(file) ==
    IF file.kind = "absent" THEN [raised |-> "FileNotFoundError", val |-> PyNone]
    ELSE json_loads(file)

-----------------------------------------------------------------------------
(* load_config / save_config / save_cached_lists *)

PlaceholderUrl == "http://your-vikunja-instance/api/v1"

DefaultConfig ==
    [vikunja_url |-> PlaceholderUrl, api_token |-> "", default_list_id |-> None]

\* a plausible slip: a malformed file is answered with the defaults
load_config_defaults_on_malformed(file) ==
    IF read_json(file).raised # "" THEN PyDict(DefaultConfig) ELSE read_json(file).val

load_config(file) ==
    LET loaded == read_json(file) IN
    CASE loaded.raised = "FileNotFoundError" -> PyDict(DefaultConfig)
      [] loaded.raised = "JSONDecodeError"   -> PyNone
      [] OTHER                               -> loaded.val

\* the new content of CONFIG_FILE
save_config(config) == json_dump(config)

\* the new content of LISTS_CACHE_FILE
save_cached_lists(lists) == json_dump(lists)

-----------------------------------------------------------------------------
(* Input sets *)

ListIds  == 1..MaxListId
Urls     == {"", "http://vikunja/api/v1"}
Tokens   == {"", "tok"}

\* well-formed configuration records, with and without the default_list_id key
WellFormedConfigs ==
    [vikunja_url : Urls \cup {PlaceholderUrl}, api_token : Tokens,
     default_list_id : ListIds \cup {None}]
    \cup [vikunja_url : Urls \cup {PlaceholderUrl}, api_token : Tokens]

StorePending == [done |-> FALSE, fresh |-> FALSE, val |-> PyNone]
NeverSaved   == [done |-> FALSE, config |-> <<>>]

\* save_config(cfg) called with a well-formed record
StoreSave(cfg) ==
    /\ configFile' = save_config(PyDict(cfg))
    /\ lastSaved' = [done |-> TRUE, config |-> cfg]
    /\ storeOut' = [storeOut EXCEPT !.fresh = FALSE]
    /\ UNCHANGED <<cacheFile, lastOp, lastSet, parseIn, parseOut>>

\* load_config() called
StoreLoad ==
    /\ storeOut' = [done |-> TRUE, fresh |-> TRUE, val |-> load_config(configFile)]
    /\ UNCHANGED <<configFile, cacheFile, lastOp, lastSet, parseIn, parseOut, lastSaved>>

-----------------------------------------------------------------------------
(* Result items, requests, responses *)

Str(s)       == [fmt |-> s, args |-> <<>>]         \* a plain string
F(fmt, args) == [fmt |-> fmt, args |-> args]       \* an f-string and its values

NoAction == [method |-> "", parameters |-> <<>>]   \* the item has no JsonRPCAction key
Action(method, parameters) == [method |-> method, parameters |-> parameters]

Item(title, subtitle, action) ==
    [Title |-> title, SubTitle |-> subtitle, IcoPath |-> "assets/icon.png",
     JsonRPCAction |-> action]

Return(items) == [raised |-> "", items |-> items]
Raise(exc)    == [raised |-> exc, items |-> <<>>]

NotConfiguredItem(action) ==
    Item(Str("Vikunja API is not configured"),
         Str("Use 'task configure' to set API settings."), action)

NoDefaultListItem ==
    Item(Str("No Default List Set"), Str("Use 'task lists' to choose a list."), NoAction)

ErrorItem(e) == Item(Str("Error"), Str(e), NoAction)      \* except Exception as e: str(e)

NoResponse == [kind |-> "none", status_code |-> 0, text |-> AbsentFile, error |-> ""]
Fault      == [kind |-> "fault", status_code |-> 0, text |-> AbsentFile,
               error |-> "ConnectionError"]
Response(status, body) ==
    [kind |-> "response", status_code |-> status, text |-> body, error |-> ""]

Statuses == {HTTP_OK, HTTP_CREATED, 404}

ListTitle(i) == IF i = 1 THEN "Inbox" ELSE "Work"
ListRecord(i) == [id |-> i, title |-> ListTitle(i)]
ListRecords == {ListRecord(i) : i \in ListIds}

BodyOf(records) == ArrayDoc([i \in DOMAIN records |-> DictPairs(records[i])])

NotFoundBody == MalformedDoc("not found")

\* sequences of well-formed {id, title} records, each list at most once
ListSeqs ==
    {rs \in UNION {[1..n -> ListRecords] : n \in 0..MaxListId} :
        \A i, j \in DOMAIN rs : rs[i] = rs[j] => i = j}

GoodBodies == {BodyOf(rs) : rs \in ListSeqs}

\* bodies that parse as JSON and are no sequence of {id, title} records
OddBodies == { ArrayDoc(<< <<  <<"id", 1>>  >> >>),
               ArrayDoc(<< << <<"title", "Inbox">> >> >>),
               ObjectDoc(<< <<"message", "ok">> >>) }

\* answers to GET /lists: every body with status 200, two bodies with the others
GetResponses ==
    {Response(HTTP_OK, b) : b \in GoodBodies \cup OddBodies \cup {NotFoundBody}}
    \cup {Response(st, b) : st \in Statuses \ {HTTP_OK}, b \in {NotFoundBody, BodyOf(<<ListRecord(1)>>)}}
    \cup {Fault}

\* answers to POST /tasks
PostResponses ==
    {Response(st, BodyOf(<<ListRecord(1)>>)) : st \in {HTTP_OK, HTTP_CREATED}}
    \cup {Response(404, NotFoundBody), Fault}

-----------------------------------------------------------------------------
(* The entry points *)

dict_get(d, k) == IF k \in DOMAIN d THEN d[k] ELSE None            \* d.get(k)

\* a plausible slip: any value that is not None counts as a configuration
truthy_is_not_none(config) == config.kind # "none"

\* bool(config) for a loaded configuration
truthy(config) == config.kind = "dict" /\ DOMAIN config.d # {}

\* `not config or not config["api_token"] or not config["vikunja_url"]`,
\* evaluated left to right: "unconfigured" (True), "ok" (False) or "KeyError"
config_check(config) ==
    CASE ~truthy(config)                    -> "unconfigured"
      [] "api_token" \notin DOMAIN config.d   -> "KeyError"
      [] config.d["api_token"] = ""           -> "unconfigured"
      [] "vikunja_url" \notin DOMAIN config.d -> "KeyError"
      [] config.d["vikunja_url"] = ""         -> "unconfigured"
      [] OTHER                                -> "ok"

\* a plausible slip: only the absence of the key is tested
no_default_list_key_only(d) == "default_list_id" \notin DOMAIN d

\* list_id = config.get("default_list_id"); list_id is None
no_default_list(d) == dict_get(d, "default_list_id") = None

post_request(d, task_title, due_date) ==
    [method  |-> "POST",
     url     |-> F("{}/tasks", <<d["vikunja_url"]>>),
     headers |-> [Authorization |-> F("Bearer {}", <<d["api_token"]>>),
                  ContentType   |-> "application/json"],
     json    |-> << [title |-> task_title, list_id |-> dict_get(d, "default_list_id"),
                     due_date |-> due_date] >>]

get_request(d) ==
    [method  |-> "GET",
     url     |-> F("{}/lists", <<d["vikunja_url"]>>),
     headers |-> [Authorization |-> F("Bearer {}", <<d["api_token"]>>), ContentType |-> ""],
     json    |-> <<>>]

\* a plausible slip: every 2xx status counts as success
create_task_outcome_any_2xx(response, task_title) ==
    IF response.kind = "fault" THEN Return(<<ErrorItem(response.error)>>)
    ELSE IF response.status_code \in 200..299
         THEN Return(<<Item(Str("Task Created Successfully"), F("{}", <<task_title>>), NoAction)>>)
         ELSE Return(<<Item(Str("Failed to create task"),
                            F("Error: {} {}", <<response.status_code, response.text>>),
                            NoAction)>>)

\* the try block of create_task
create_task_outcome(response, task_title) ==
    IF response.kind = "fault" THEN Return(<<ErrorItem(response.error)>>)
    ELSE IF response.status_code = HTTP_CREATED
         THEN Return(<<Item(Str("Task Created Successfully"), F("{}", <<task_title>>), NoAction)>>)
         ELSE Return(<<Item(Str("Failed to create task"),
                            F("Error: {} {}", <<response.status_code, response.text>>),
                            NoAction)>>)

create_task(file, task_title, due_date, response) ==
    LET config == load_config(file) IN
    CASE config_check(config) = "KeyError" -> [out |-> Raise("KeyError"), http |-> <<>>]
      [] config_check(config) = "unconfigured" ->
            [out |-> Return(<<NotConfiguredItem(NoAction)>>), http |-> <<>>]
      [] OTHER ->
            IF no_default_list(config.d)
            THEN [out |-> Return(<<NoDefaultListItem>>), http |-> <<>>]
            ELSE [out  |-> create_task_outcome(response, task_title),
                  http |-> <<post_request(config.d, task_title, due_date)>>]

ListItem(list_item) ==
    Item(Str(list_item["title"]),
         F("Select this list (ID: {})", <<list_item["id"]>>),
         Action("set_default_list", <<list_item["id"]>>))

\* a plausible slip: the items are built back to front
list_items_reversed(lists) ==
    CASE lists.kind = "list" ->
            IF \E i \in DOMAIN lists.l : "title" \notin DOMAIN lists.l[i] THEN Raise("'title'")
            ELSE IF \E i \in DOMAIN lists.l : "id" \notin DOMAIN lists.l[i] THEN Raise("'id'")
            ELSE Return([i \in DOMAIN lists.l |-> ListItem(lists.l[Len(lists.l) + 1 - i])])
      [] lists.kind = "dict" ->
            IF DOMAIN lists.d = {} THEN Return(<<>>)
            ELSE Raise("string indices must be integers")
      [] OTHER -> Raise("'NoneType' object is not iterable")

\* the list comprehension over the parsed body
list_items(lists) ==
    CASE lists.kind = "list" ->
            IF \E i \in DOMAIN lists.l : "title" \notin DOMAIN lists.l[i] THEN Raise("'title'")
            ELSE IF \E i \in DOMAIN lists.l : "id" \notin DOMAIN lists.l[i] THEN Raise("'id'")
            ELSE Return([i \in DOMAIN lists.l |-> ListItem(lists.l[i])])
      [] lists.kind = "dict" ->
            IF DOMAIN lists.d = {} THEN Return(<<>>)
            ELSE Raise("string indices must be integers")
      [] OTHER -> Raise("'NoneType' object is not iterable")

\* the try block of fetch_vikunja_lists
fetch_outcome(cache, response) ==
    LET parsed == json_loads(response.text) IN
    IF response.kind = "fault"
    THEN [out |-> Return(<<ErrorItem(response.error)>>), cache |-> cache, writes |-> {}]
    ELSE IF response.status_code = HTTP_OK
         THEN IF parsed.raised # ""
              THEN [out |-> Return(<<ErrorItem(parsed.raised)>>), cache |-> cache, writes |-> {}]
              ELSE [out    |-> LET items == list_items(parsed.val) IN
                               IF items.raised # ""
                               THEN Return(<<ErrorItem(items.raised)>>)
                               ELSE items,
                    cache  |-> save_cached_lists(parsed.val),
                    writes |-> {"cache"}]
         ELSE [out |-> Return(<<Item(Str("Failed to fetch lists"),
                                     F("Error: {} {}", <<response.status_code, response.text>>),
                                     NoAction)>>),
               cache |-> cache, writes |-> {}]

fetch_vikunja_lists(file, cache, response) ==
    LET config == load_config(file) IN
    CASE config_check(config) = "KeyError" ->
            [out |-> Raise("KeyError"), http |-> <<>>, cache |-> cache, writes |-> {}]
      [] config_check(config) = "unconfigured" ->
            [out |-> Return(<<NotConfiguredItem(NoAction)>>), http |-> <<>>,
             cache |-> cache, writes |-> {}]
      [] OTHER ->
            LET r == fetch_outcome(cache, response) IN
            [out |-> r.out, http |-> <<get_request(config.d)>>,
             cache |-> r.cache, writes |-> r.writes]

Lists == <<"l","i","s","t","s">>

query(file, cache, text, now, response) ==
    LET config == load_config(file) IN
    CASE config_check(config) = "KeyError" ->
            [out |-> Raise("KeyError"), http |-> <<>>, cache |-> cache, writes |-> {}]
      [] config_check(config) = "unconfigured" ->
            [out |-> Return(<<NotConfiguredItem(Action("set_config", <<>>))>>), http |-> <<>>,
             cache |-> cache, writes |-> {}]
      [] OTHER ->
            IF lower(text) = Lists THEN fetch_vikunja_lists(file, cache, response)
            ELSE IF text = <<>>
            THEN [out |-> Return(<<Item(Str("Create a task in Vikunja"),
                                        Str("Type a task after 'task'"), NoAction)>>),
                  http |-> <<>>, cache |-> cache, writes |-> {}]
            ELSE LET parsed == parse_task_query(text, now) IN
                 [out |-> Return(<<Item(F("Add Task: {}", <<parsed.task_title>>),
                                        F("Due Date: {}", <<parsed.due_date>>),
                                        Action("create_task",
                                               <<parsed.task_title, parsed.due_date>>))>>),
                  http |-> <<>>, cache |-> cache, writes |-> {}]

\* a plausible slip: the record is rebuilt from the defaults instead of updated
with_default_list_rebuilt(d, list_id) == [DefaultConfig EXCEPT !["default_list_id"] = list_id]

\* config["default_list_id"] = list_id
with_default_list(d, list_id) ==
    [k \in DOMAIN d \cup {"default_list_id"} |->
        IF k = "default_list_id" THEN list_id ELSE d[k]]

set_default_list(file, list_id) ==
    LET config == load_config(file) IN
    IF truthy(config)
    THEN [out    |-> Return(<<Item(Str("Default List Updated"),
                                   F("New Default List ID: {}", <<list_id>>), NoAction)>>),
          file   |-> save_config(PyDict(with_default_list(config.d, list_id))),
          writes |-> {"config"}]
    ELSE [out    |-> Return(<<Item(Str("Error: Failed to update list"), Str("Try again."),
                                   NoAction)>>),
          file   |-> file,
          writes |-> {}]

-----------------------------------------------------------------------------
(* State machine of the plugin: one action per entry point *)

ConfigKeys == {"vikunja_url", "api_token", "default_list_id"}

FullConfigs == [vikunja_url : Urls, api_token : Tokens, default_list_id : ListIds \cup {None}]

\* JSON objects holding any subset of the three keys
PartialConfigs == {[k \in K |-> c[k]] : c \in FullConfigs, K \in SUBSET ConfigKeys}

InitConfigFiles ==
    {AbsentFile, MalformedDoc("{")} \cup {ObjectDoc(DictPairs(c)) : c \in PartialConfigs}

\* query texts of the plugin specification
BuyMilkTomorrow == <<"B","u","y"," ","m","i","l","k"," ">> \o KwTomorrow
Queries == { <<>>, Lists, <<"L","i","s","t","s">>, BuyMilkTomorrow, <<"B","u","y">> }
Titles  == { <<"B","u","y">>, <<>> }
DueDates == {None, due_date_of(0, 1)}

NoArgs == [query |-> <<>>, task_title |-> <<>>, due_date |-> None, list_id |-> None]

\* lastOp.file is CONFIG_FILE as the invocation found it
Idle == [op |-> "init", args |-> NoArgs, file |-> AbsentFile, response |-> NoResponse,
         out |-> Return(<<>>), http |-> <<>>, writes |-> {}]

\* lastSet.before holds the vikunja_url and api_token entries of the configuration
\* the last successful set_default_list loaded
NeverSet == [done |-> FALSE, list_id |-> None, before |-> <<>>]

Query(text, now, response) ==
    LET r == query(configFile, cacheFile, text, now, response) IN
    /\ lastOp' = [op |-> "query", args |-> [NoArgs EXCEPT !.query = text],
                  file |-> configFile,
                  response |-> IF r.http = <<>> THEN NoResponse ELSE response,
                  out |-> r.out, http |-> r.http, writes |-> r.writes]
    /\ cacheFile' = r.cache
    /\ UNCHANGED <<configFile, lastSet, parseIn, parseOut, storeOut, lastSaved>>

CreateTask(task_title, due_date, response) ==
    LET r == create_task(configFile, task_title, due_date, response) IN
    /\ lastOp' = [op |-> "create_task",
                  args |-> [NoArgs EXCEPT !.task_title = task_title, !.due_date = due_date],
                  file |-> configFile,
                  response |-> IF r.http = <<>> THEN NoResponse ELSE response,
                  out |-> r.out, http |-> r.http, writes |-> {}]
    /\ UNCHANGED <<configFile, cacheFile, lastSet, parseIn, parseOut, storeOut, lastSaved>>

FetchLists(response) ==
    LET r == fetch_vikunja_lists(configFile, cacheFile, response) IN
    /\ lastOp' = [op |-> "fetch_vikunja_lists", args |-> NoArgs, file |-> configFile,
                  response |-> IF r.http = <<>> THEN NoResponse ELSE response,
                  out |-> r.out, http |-> r.http, writes |-> r.writes]
    /\ cacheFile' = r.cache
    /\ UNCHANGED <<configFile, lastSet, parseIn, parseOut, storeOut, lastSaved>>

SetDefaultList(list_id) ==
    LET r == set_default_list(configFile, list_id) IN
    /\ lastOp' = [op |-> "set_default_list", args |-> [NoArgs EXCEPT !.list_id = list_id],
                  file |-> configFile,
                  response |-> NoResponse, out |-> r.out, http |-> <<>>, writes |-> r.writes]
    /\ configFile' = r.file
    /\ lastSet' = IF "config" \in r.writes
                  THEN [done |-> TRUE, list_id |-> list_id,
                        before |-> LET d == load_config(configFile).d IN
                                   [k \in DOMAIN d \cap {"vikunja_url", "api_token"} |-> d[k]]]
                  ELSE lastSet
    /\ UNCHANGED <<cacheFile, parseIn, parseOut, storeOut, lastSaved>>

Init ==
    /\ configFile \in InitConfigFiles
    /\ cacheFile = AbsentFile
    /\ lastOp = Idle
    /\ lastSet = NeverSet
    /\ parseIn = [query |-> <<>>, now |-> 0]
    /\ parseOut = ParsePending
    /\ storeOut = StorePending
    /\ lastSaved = NeverSaved

\* The clock is read only by parse_task_query and the network answers only a
\* request: a query that is not "lists" draws the day, a "lists" query the answer.
Next ==
    \/ \E text \in Queries, now \in Days :
          lower(text) # Lists /\ Query(text, now, NoResponse)
    \/ \E text \in Queries, response \in GetResponses :
          lower(text) = Lists /\ Query(text, 0, response)
    \/ \E task_title \in Titles, due_date \in DueDates, response \in PostResponses :
          CreateTask(task_title, due_date, response)
    \/ \E response \in GetResponses : FetchLists(response)
    \/ \E list_id \in ListIds : SetDefaultList(list_id)

Spec == Init /\ [][Next]_vars

-----------------------------------------------------------------------------
(* parse_task_query as a pure function: inputs drawn in the initial state *)

InitParse ==
    /\ configFile = AbsentFile
    /\ cacheFile = AbsentFile
    /\ lastOp = Idle
    /\ lastSet = NeverSet
    /\ parseIn \in [query : ParseQueries, now : Days]
    /\ parseOut = ParsePending
    /\ storeOut = StorePending
    /\ lastSaved = NeverSaved

NextParse == ParseStep

SpecParse == InitParse /\ [][NextParse]_vars

-----------------------------------------------------------------------------
(* load_config / save_config as a store *)

InitStore ==
    /\ configFile \in {AbsentFile, MalformedDoc("{")}
    /\ cacheFile = AbsentFile
    /\ lastOp = Idle
    /\ lastSet = NeverSet
    /\ parseIn = [query |-> <<>>, now |-> 0]
    /\ parseOut = ParsePending
    /\ storeOut = StorePending
    /\ lastSaved = NeverSaved

NextStore ==
    \/ \E cfg \in WellFormedConfigs : StoreSave(cfg)
    \/ StoreLoad

SpecStore == InitStore /\ [][NextStore]_vars

-----------------------------------------------------------------------------
(* Properties *)

Loaded == load_config(lastOp.file)        \* what the last invocation's load_config returned

Returned  == lastOp.out.raised = ""
OneItem   == Returned /\ Len(lastOp.out.items) = 1
TheItem   == lastOp.out.items[1]
TitleIs(t) == OneItem /\ TheItem.Title.fmt = t

\* token and URL present and non-empty
Configured ==
    /\ Loaded.kind = "dict"
    /\ {"api_token", "vikunja_url"} \subseteq DOMAIN Loaded.d
    /\ Loaded.d["api_token"] # ""
    /\ Loaded.d["vikunja_url"] # ""

HasEmpty(k) == Loaded.kind = "dict" /\ k \in DOMAIN Loaded.d /\ Loaded.d[k] = ""

\* C1: query(text) with a loaded configuration whose api_token or vikunja_url is
\* empty returns exactly one "not configured" item with callback set_config and no
\* arguments, issues no HTTP request and writes no file.
C1_NotConfigured ==
    (lastOp.op = "query" /\ (HasEmpty("api_token") \/ HasEmpty("vikunja_url")))
    => /\ TitleIs("Vikunja API is not configured")
       /\ TheItem.JsonRPCAction.method = "set_config"
       /\ TheItem.JsonRPCAction.parameters = <<>>
       /\ lastOp.http = <<>>
       /\ lastOp.writes = {}

\* C2: create_task with a non-empty token and URL but no default list id (null or
\* key absent) returns exactly one "no default list" item and issues no POST.
C2_NoDefaultList ==
    (lastOp.op = "create_task" /\ Configured /\ dict_get(Loaded.d, "default_list_id") = None)
    => /\ TitleIs("No Default List Set")
       /\ lastOp.http = <<>>

C2_Witness ==
    /\ lastOp.op = "create_task" /\ Configured
    /\ "default_list_id" \in DOMAIN Loaded.d /\ Loaded.d["default_list_id"] = None
    /\ lastOp.args.task_title # <<>> /\ lastOp.args.due_date # None
    /\ TitleIs("No Default List Set")

RECURSIVE RemoveFirstCI(_, _)
\* s with the first case-insensitive occurrence of key removed
RemoveFirstCI(s, key) ==
    IF Len(s) < Len(key) THEN s
    ELSE IF StartsWith(lower(s), key) THEN SubSeq(s, Len(key) + 1, Len(s))
    ELSE <<Head(s)>> \o RemoveFirstCI(Tail(s), key)

\* C3: the keyword table is matched case-insensitively in order; on the first
\* matching keyword the due date is today + offset and the title is the query with
\* the first case-insensitive occurrence of that keyword removed, then trimmed; with
\* no match the title is the query and the due date is absent.
C3_ParserRemovesKeyword ==
    parseOut.done =>
        LET q == parseIn.query
            matches == {i \in DOMAIN date_keywords : Contains(lower(q), date_keywords[i].key)}
        IN IF matches = {}
           THEN parseOut.task_title = q /\ parseOut.due_date = None
           ELSE LET i == CHOOSE m \in matches : \A n \in matches : m <= n IN
                /\ parseOut.due_date = parseIn.now + date_keywords[i].days
                /\ parseOut.task_title = strip(RemoveFirstCI(q, date_keywords[i].key))

FetchedOk ==
    /\ lastOp.op \in {"fetch_vikunja_lists", "query"}
    /\ lastOp.http # <<>>
    /\ lastOp.response.kind = "response"
    /\ lastOp.response.status_code = HTTP_OK

\* C4: a lists fetch answered 200 with a sequence of {id, title} records leaves
\* that sequence in the cache file and returns one item per record, in order, with
\* the record's title and a set_default_list callback on the record's id.
C4_FetchLists ==
    (FetchedOk /\ Configured /\ lastOp.response.text \in GoodBodies)
    => LET records == lastOp.response.text.elems IN
       /\ cacheFile.kind = "array"
       /\ cacheFile.elems = records
       /\ Returned
       /\ Len(lastOp.out.items) = Len(records)
       /\ \A i \in DOMAIN records :
             LET it == lastOp.out.items[i] IN
             /\ \E j \in DOMAIN records[i] :
                   records[i][j][1] = "title" /\ it.Title = Str(records[i][j][2])
             /\ \E j \in DOMAIN records[i] :
                   /\ records[i][j][1] = "id"
                   /\ it.JsonRPCAction = Action("set_default_list", <<records[i][j][2]>>)

C4_Witness ==
    /\ FetchedOk /\ Configured
    /\ lastOp.response.text = BodyOf(<<ListRecord(2), ListRecord(1)>>)
    /\ Len(lastOp.out.items) = 2
    /\ lastOp.out.items[1].Title = Str("Work")
    /\ cacheFile = lastOp.response.text

\* C5: create_task with token, URL and default list id configured issues exactly
\* one POST and returns exactly one item: success with the title on 201, failure
\* with status code and body on any other status, failure with the fault's
\* description on a transport fault.
C5_CreateTaskOutcome ==
    (lastOp.op = "create_task" /\ Configured /\ dict_get(Loaded.d, "default_list_id") # None)
    => /\ Len(lastOp.http) = 1
       /\ lastOp.http[1].method = "POST"
       /\ OneItem
       /\ CASE lastOp.response.kind = "fault" ->
                  TheItem.Title.fmt = "Error" /\ TheItem.SubTitle = Str(lastOp.response.error)
            [] lastOp.response.kind = "response"
               /\ lastOp.response.status_code = HTTP_CREATED ->
                  /\ TheItem.Title.fmt = "Task Created Successfully"
                  /\ TheItem.SubTitle.args = <<lastOp.args.task_title>>
            [] lastOp.response.kind = "response"
               /\ lastOp.response.status_code # HTTP_CREATED ->
                  /\ TheItem.Title.fmt = "Failed to create task"
                  /\ TheItem.SubTitle.args =
                        <<lastOp.response.status_code, lastOp.response.text>>
            [] OTHER -> FALSE

C5_Witness ==
    /\ lastOp.op = "create_task" /\ Configured
    /\ lastOp.response.kind = "response" /\ lastOp.response.status_code = 404
    /\ lastOp.response.text = NotFoundBody
    /\ TitleIs("Failed to create task")

\* C6: load_config returns the defaults for an absent file, the null sentinel
\* (never the defaults) for a malformed file, and after any sequence of saves
\* exactly the record given to the last save.
C6_StoreRoundTrip ==
    (storeOut.done /\ storeOut.fresh)
    => /\ configFile.kind = "absent" =>
             storeOut.val.kind = "dict" /\ storeOut.val.d = DefaultConfig
       /\ configFile.kind = "malformed" => storeOut.val.kind = "none"
       /\ lastSaved.done =>
             storeOut.val.kind = "dict" /\ storeOut.val.d = lastSaved.config

C6_Witness ==
    /\ storeOut.done /\ storeOut.fresh /\ lastSaved.done
    /\ storeOut.val.kind = "dict"
    /\ DOMAIN storeOut.val.d = {"vikunja_url", "api_token"}
    /\ storeOut.val.d["api_token"] = "tok"

\* C7: no entry point ever raises: every invocation returns a list of items.
C7_NeverRaises == Returned

\* C8 as stated: with no configuration file, set_default_list returns the failure
\* item and writes nothing; the confirmation needs an existing record.
C8_AbsentFileFails ==
    lastOp.op = "set_default_list"
    => /\ lastOp.file.kind = "absent" =>
             /\ TitleIs("Error: Failed to update list")
             /\ lastOp.writes = {}
             /\ configFile = AbsentFile
       /\ TitleIs("Default List Updated") => lastOp.file.kind = "object"

\* C8 (amended): set_default_list returns the failure item and writes nothing
\* only when the file is malformed or an empty object; otherwise (the file absent
\* included, where the defaults are taken) it saves the loaded record with
\* default_list_id set and returns the confirmation item.
C8_FailsOnlyOnFalsyConfig ==
    lastOp.op = "set_default_list"
    => IF lastOp.file.kind = "malformed"
          \/ (lastOp.file.kind = "object" /\ lastOp.file.pairs = <<>>)
       THEN /\ TitleIs("Error: Failed to update list")
            /\ lastOp.writes = {}
            /\ configFile = lastOp.file
       ELSE /\ TitleIs("Default List Updated")
            /\ lastOp.writes = {"config"}
            /\ configFile.kind = "object"
            /\ load_config(configFile).d["default_list_id"] = lastOp.args.list_id
            /\ lastOp.file.kind = "absent" =>
                  load_config(configFile).d =
                     [DefaultConfig EXCEPT !["default_list_id"] = lastOp.args.list_id]

C8_Witness ==
    /\ lastOp.op = "set_default_list"
    /\ lastOp.file.kind = "absent"
    /\ TitleIs("Default List Updated")
    /\ configFile.kind = "object"

IsErrorOutcome ==
    \/ ~Returned
    \/ /\ OneItem
       /\ TheItem.Title.fmt \in {"Error", "Failed to fetch lists", "Vikunja API is not configured"}

\* C9: the cache file holds the body of the most recent lists fetch answered 200:
\* such a fetch replaces it with the body, and a fetch that ends in a non-200
\* status, a transport fault or an error item, like every other entry point,
\* leaves it unchanged.
C9_CacheFollowsFetch ==
    /\ (FetchedOk /\ ~IsErrorOutcome) =>
          lastOp.writes = {"cache"} /\ cacheFile = lastOp.response.text
    /\ ~(FetchedOk /\ ~IsErrorOutcome) => "cache" \notin lastOp.writes

\* C10: a successful set_default_list(id) changes only default_list_id in the
\* stored configuration, and every later create_task that reaches the network
\* posts to the unchanged URL with the unchanged token and with list_id equal to
\* the id of the most recent successful set_default_list.
C10_SetDefaultListFrame ==
    /\ (lastOp.op = "set_default_list" /\ TitleIs("Default List Updated"))
       => LET old == Loaded.d
              new == load_config(configFile).d
          IN /\ DOMAIN new = DOMAIN old \cup {"default_list_id"}
             /\ \A k \in DOMAIN old \ {"default_list_id"} : new[k] = old[k]
             /\ new["default_list_id"] = lastOp.args.list_id
    /\ (lastOp.op = "create_task" /\ lastOp.http # <<>> /\ lastSet.done)
       => /\ {"vikunja_url", "api_token"} \subseteq DOMAIN lastSet.before
          /\ lastOp.http[1].url = F("{}/tasks", <<lastSet.before["vikunja_url"]>>)
          /\ lastOp.http[1].headers.Authorization =
                F("Bearer {}", <<lastSet.before["api_token"]>>)
          /\ lastOp.http[1].json[1].list_id = lastSet.list_id

C10_Witness ==
    /\ lastOp.op = "create_task" /\ lastOp.http # <<>> /\ lastSet.done
    /\ lastSet.list_id = 2
    /\ lastOp.http[1].json[1].list_id = 2
    /\ lastOp.response.kind = "response" /\ lastOp.response.status_code = HTTP_CREATED

====
